---- MODULE Spec2Model ----
(***************************************************************************)
(* Lunar lander: the craft (LunarModule), the terrain (Map) and the        *)
(* collision classification of lander.rs, map.rs and game.rs.              *)
(*                                                                         *)
(* Fixed-point representation of the f32 quantities of the source:         *)
(*   angles      tenths of a degree        (2.5 degrees = 25)              *)
(*   velocities  1/60 unit per second      (20 units/s  = 1200)            *)
(*   positions   1/3600 unit               (400 units   = 1440000)         *)
(*   geometry    1/10 unit (collision shapes and terrain waypoints)        *)
(* so that "velocity += (0,5)/60" and "position += velocity/60" are exact. *)
(***************************************************************************)
EXTENDS Integers, Sequences, FiniteSets, TLC

VARIABLES
    points,            \* MapMessage.points, the waypoint list read at start-up
    boot,              \* outcome of MapMessage::extract_map: "ok" or "panic"
    map,               \* Map.lines
    state,             \* LunarModule.state
    position,          \* LunarModule.position
    velocity,          \* LunarModule.velocity
    attitude,          \* LunarModule.attitude
    desired_attitude,  \* LunarModule.desired_attitude
    thruster_on,       \* LunarModule.thruster_on
    zoomed,            \* LunarModule.zoomed
    last_op,           \* the craft operation executed last
    ticks,             \* tick_position calls since the craft was spawned
    burns,             \* effective apply_thrust calls since the craft was spawned
    turns,             \* desired_attitude deltas since the craft was spawned
    started,           \* Game.started
    calls,             \* the craft operations called by the last Game::update
    frames             \* calls of Game::update counted by the exploration

vars == <<points, boot, map, state, position, velocity, attitude,
          desired_attitude, thruster_on, zoomed, last_op, ticks, burns, turns,
          started, calls, frames>>

-----------------------------------------------------------------------------
(* Bounds of the exploration *)

MaxTicks == 1
MaxBurns == 1
MaxTurns == 1
\* the random numbers drawn are r / RandDenominator, r in 0..RandDenominator
RandDenominator == 2
\* multiples of a full turn added to an attitude
MaxWraps == 1
\* ticks, burns and turns together since the craft was spawned
MaxOps == 3
\* frames of the game explored from each starting state
MaxFrames == 3

Ops == ticks + burns + turns

-----------------------------------------------------------------------------
(* Program constants, in the units above *)

\* the tick rate: "/ 60.0" in apply_thrust and tick_position
VelScale == 60
\* geometry units per unit of length, and the multiplier 1.0 of an unzoomed craft
UnitScale == 10
ZOOMED_SCALE == 6
PosPerGeom == (VelScale * VelScale) \div UnitScale

FullTurn == 3600
AngleTolerance == 100
SpawnAttitude == 900
AttitudeStep == 25
MaxLandingSpeed == 1200
Gravity == 5
ThrustAccel == 15
SpawnPosition == <<400 * VelScale * VelScale, 300 * VelScale * VelScale>>
SpawnSpeedMin == 20 * VelScale
SpawnSpeedSpan == 20 * VelScale

-----------------------------------------------------------------------------
(* Arithmetic helpers *)

Abs(n) == IF n < 0 THEN -n ELSE n

\* Rust's % on numbers: the remainder takes the sign of the dividend
Rem(a, m) == IF a >= 0 THEN a % m ELSE -((-a) % m)

\* nearest integer to n / d, d > 0
RoundDiv(n, d) == (2 * n + d) \div (2 * d)

RECURSIVE SqrtSearch(_, _, _)
SqrtSearch(n, lo, hi) ==
    IF lo >= hi THEN lo
    ELSE LET mid == (lo + hi + 1) \div 2
         IN IF mid * mid <= n THEN SqrtSearch(n, mid, hi)
            ELSE SqrtSearch(n, lo, mid - 1)

\* floor of the square root, n < 2^30
ISqrt(n) == SqrtSearch(n, 0, 32767)

VAdd(u, v) == <<u[1] + v[1], u[2] + v[2]>>
VSub(u, v) == <<u[1] - v[1], u[2] - v[2]>>
Dot(u, v) == u[1] * v[1] + u[2] * v[2]
Cross(u, v) == u[1] * v[2] - u[2] * v[1]
Len2(v) == Dot(v, v)

-----------------------------------------------------------------------------
(* Transform::rotate: sine and cosine of the attitude, scaled by 1000 *)

SinTable == <<0, 44, 87, 131, 174, 216, 259, 301, 342, 383, 423, 462, 500,
              537, 574, 609, 643, 676, 707, 737, 766, 793, 819, 843, 866,
              887, 906, 924, 940, 954, 966, 976, 985, 991, 996, 999, 1000>>

QuarterTurn == Len(SinTable) - 1
TrigScale == SinTable[Len(SinTable)]

SinIdx(k) ==
    IF k <= QuarterTurn THEN SinTable[k + 1]
    ELSE IF k <= 2 * QuarterTurn THEN SinTable[2 * QuarterTurn - k + 1]
    ELSE IF k <= 3 * QuarterTurn THEN -SinTable[k - 2 * QuarterTurn + 1]
    ELSE -SinTable[4 * QuarterTurn - k + 1]

Sin(a) == SinIdx((a % FullTurn) \div AttitudeStep)
Cos(a) == SinIdx(((a + QuarterTurn * AttitudeStep) % FullTurn) \div AttitudeStep)

\* Transform::rotate(a) * v, components scaled by TrigScale
Rotate(a, v) == <<v[1] * Cos(a) - v[2] * Sin(a), v[1] * Sin(a) + v[2] * Cos(a)>>

-----------------------------------------------------------------------------
(* Terrain: MapMessage::extract_map *)

Line(a, b) == [a |-> a, b |-> b]

RECURSIVE ExtractLoop_StaleLast(_, _, _, _)
\* the loop without "last_point = point.clone()": every line starts at points[0]
ExtractLoop_StaleLast(pts, i, last_point, lines) ==
    IF i > Len(pts) THEN lines
    ELSE ExtractLoop_StaleLast(pts, i + 1, last_point,
                               Append(lines, Line(last_point, pts[i])))

RECURSIVE ExtractLoop(_, _, _, _)
\* the for loop over points.iter().skip(1), i being the index of the next point
ExtractLoop(pts, i, last_point, lines) ==
    IF i > Len(pts) THEN lines
    ELSE ExtractLoop(pts, i + 1, pts[i], Append(lines, Line(last_point, pts[i])))

\* self.points[0] panics on an empty list; otherwise a Map is returned
extract_map(pts) ==
    IF Len(pts) = 0
    THEN [outcome |-> "panic", lines |-> <<>>]
    ELSE [outcome |-> "ok", lines |-> ExtractLoop(pts, 2, pts[1], <<>>)]

-----------------------------------------------------------------------------
(* Intersection tests of the geometry library, on closed shapes *)

Sign(n) == IF n > 0 THEN 1 ELSE IF n < 0 THEN -1 ELSE 0

Orient(a, b, c) == Sign(Cross(VSub(b, a), VSub(c, a)))

Between(lo, hi, v) == (lo <= v /\ v <= hi) \/ (hi <= v /\ v <= lo)

\* c lies in the bounding box of segment a-b (used when a, b, c are collinear)
OnSegment(a, b, c) == Between(a[1], b[1], c[1]) /\ Between(a[2], b[2], c[2])

\* Line::intersects(Line): the two closed segments share a point
LineIntersects(l, m) ==
    LET o1 == Orient(l.a, l.b, m.a)
        o2 == Orient(l.a, l.b, m.b)
        o3 == Orient(m.a, m.b, l.a)
        o4 == Orient(m.a, m.b, l.b)
    IN \/ (o1 # o2 /\ o3 # o4)
       \/ (o1 = 0 /\ OnSegment(l.a, l.b, m.a))
       \/ (o2 = 0 /\ OnSegment(l.a, l.b, m.b))
       \/ (o3 = 0 /\ OnSegment(m.a, m.b, l.a))
       \/ (o4 = 0 /\ OnSegment(m.a, m.b, l.b))

\* Circle::intersects(Line): the segment comes within the radius of the centre
CircleIntersects(c, l) ==
    LET d == VSub(l.b, l.a)
        w == VSub(c.pos, l.a)
        t == Dot(w, d)
    IN IF t <= 0 THEN Len2(w) <= c.radius * c.radius
       ELSE IF t >= Len2(d) THEN Len2(VSub(c.pos, l.b)) <= c.radius * c.radius
       ELSE Abs(Cross(d, w)) \div ISqrt(Len2(d)) <= c.radius

InRect(r, v) == Between(r.lo[1], r.hi[1], v[1]) /\ Between(r.lo[2], r.hi[2], v[2])

\* Rectangle::intersects(Line): the closed rectangle and the segment share a point
RectIntersects(r, l) ==
    \/ InRect(r, l.a)
    \/ InRect(r, l.b)
    \/ LineIntersects(Line(r.lo, <<r.hi[1], r.lo[2]>>), l)
    \/ LineIntersects(Line(<<r.hi[1], r.lo[2]>>, r.hi), l)
    \/ LineIntersects(Line(r.hi, <<r.lo[1], r.hi[2]>>), l)
    \/ LineIntersects(Line(<<r.lo[1], r.hi[2]>>, r.lo), l)

-----------------------------------------------------------------------------
(* Collision geometry of the craft, lander.rs check_collision *)

Multiplier(z) == IF z THEN ZOOMED_SCALE ELSE UnitScale

\* position in geometry units
GeomPos(p) == <<p[1] \div PosPerGeom, p[2] \div PosPerGeom>>

\* Transform::rotate(a) * v * multiplier, in geometry units
Offset(a, v, m) ==
    LET r == Rotate(a, v) IN <<RoundDiv(r[1] * m, TrigScale), RoundDiv(r[2] * m, TrigScale)>>

Top(p, a, z) ==
    [pos |-> VAdd(GeomPos(p), Offset(a, <<0, -6>>, Multiplier(z))),
     radius |-> 4 * Multiplier(z)]

LeftLegBase(p, a, z) ==
    LET bottom_left == VAdd(GeomPos(p), Offset(a, <<-3, 2>>, Multiplier(z)))
    IN Line(bottom_left, VAdd(bottom_left, Offset(a, <<-3, 2>>, Multiplier(z))))

RightLegBase(p, a, z) ==
    LET bottom_right == VAdd(GeomPos(p), Offset(a, <<3, 2>>, Multiplier(z)))
    IN Line(bottom_right, VAdd(bottom_right, Offset(a, <<3, 2>>, Multiplier(z))))

\* the main body, drawn by draw() and tested by the draft of check_collision
BodyRect(p, z) ==
    LET corner == VAdd(GeomPos(p), <<-5 * Multiplier(z), -2 * Multiplier(z)>>)
    IN [lo |-> corner,
        hi |-> VAdd(corner, <<10 * Multiplier(z), 4 * Multiplier(z)>>)]

\* the draft's test, with main_rect.intersects(&line)
Colliding_WithBody(line, p, a, z) ==
    \/ CircleIntersects(Top(p, a, z), line)
    \/ RectIntersects(BodyRect(p, z), line)
    \/ LineIntersects(LeftLegBase(p, a, z), line)
    \/ LineIntersects(RightLegBase(p, a, z), line)

Colliding(line, p, a, z) ==
    \/ CircleIntersects(Top(p, a, z), line)
    \/ LineIntersects(LeftLegBase(p, a, z), line)
    \/ LineIntersects(RightLegBase(p, a, z), line)

\* the loop without the early return: the last colliding line decides
FirstContact_Last(lines, p, a, z) ==
    IF \E i \in 1..Len(lines) : Colliding(lines[i], p, a, z)
    THEN CHOOSE i \in 1..Len(lines) :
            /\ Colliding(lines[i], p, a, z)
            /\ \A j \in (i + 1)..Len(lines) : ~Colliding(lines[j], p, a, z)
    ELSE 0

\* index of the first line of the map the craft collides with, 0 if none
FirstContact(lines, p, a, z) ==
    IF \E i \in 1..Len(lines) : Colliding(lines[i], p, a, z)
    THEN CHOOSE i \in 1..Len(lines) :
            /\ Colliding(lines[i], p, a, z)
            /\ \A j \in 1..(i - 1) : ~Colliding(lines[j], p, a, z)
    ELSE 0

-----------------------------------------------------------------------------
(* LunarModuleState and CrashReason *)

Flying == [tag |-> "Flying"]
Landed == [tag |-> "Landed"]
Crashed(reason) == [tag |-> "Crashed", reason |-> reason]
AngleTooSteep(angle) == [kind |-> "AngleTooSteep", angle |-> angle]
VelocityTooHigh(v) == [kind |-> "VelocityTooHigh", velocity |-> v]
SurfaceNotFlat(line) == [kind |-> "SurfaceNotFlat", line |-> line]

IsFlying == state.tag = "Flying"
IsTerminal == state.tag \in {"Landed", "Crashed"}

\* (self.attitude % 360.0).abs()
\* the remainder taken over a quarter turn
NormalizedAttitude_QuarterTurn(a) == Abs(Rem(a, FullTurn \div 4))

NormalizedAttitude(a) == Abs(Rem(a, FullTurn))

\* Classify with the surface test ahead of the velocity test
Classify_FlatnessFirst(line, v, a) ==
    IF line.a[2] # line.b[2]
    THEN Crashed(SurfaceNotFlat(line))
    ELSE IF Len2(v) > MaxLandingSpeed * MaxLandingSpeed
    THEN Crashed(VelocityTooHigh(v))
    ELSE IF NormalizedAttitude(a) > AngleTolerance
            /\ NormalizedAttitude(a) < FullTurn - AngleTolerance
    THEN Crashed(AngleTooSteep(NormalizedAttitude(a)))
    ELSE Landed

\* Classify with the angle test ahead of the surface test
Classify_AngleFirst(line, v, a) ==
    IF Len2(v) > MaxLandingSpeed * MaxLandingSpeed
    THEN Crashed(VelocityTooHigh(v))
    ELSE IF NormalizedAttitude(a) > AngleTolerance
            /\ NormalizedAttitude(a) < FullTurn - AngleTolerance
    THEN Crashed(AngleTooSteep(NormalizedAttitude(a)))
    ELSE IF line.a[2] # line.b[2]
    THEN Crashed(SurfaceNotFlat(line))
    ELSE Landed

\* Classify with the tolerance band closed at 10 and 350 degrees
Classify_ClosedBand(line, v, a) ==
    IF Len2(v) > MaxLandingSpeed * MaxLandingSpeed
    THEN Crashed(VelocityTooHigh(v))
    ELSE IF line.a[2] # line.b[2]
    THEN Crashed(SurfaceNotFlat(line))
    ELSE IF NormalizedAttitude(a) >= AngleTolerance
            /\ NormalizedAttitude(a) <= FullTurn - AngleTolerance
    THEN Crashed(AngleTooSteep(NormalizedAttitude(a)))
    ELSE Landed

\* Classify comparing the squared length of the velocity with the speed limit
Classify_LenSquared(line, v, a) ==
    IF Len2(v) > MaxLandingSpeed
    THEN Crashed(VelocityTooHigh(v))
    ELSE IF line.a[2] # line.b[2]
    THEN Crashed(SurfaceNotFlat(line))
    ELSE IF NormalizedAttitude(a) > AngleTolerance
            /\ NormalizedAttitude(a) < FullTurn - AngleTolerance
    THEN Crashed(AngleTooSteep(NormalizedAttitude(a)))
    ELSE Landed

\* the if / else-if chain run on the first colliding line
Classify(line, v, a) ==
    IF Len2(v) > MaxLandingSpeed * MaxLandingSpeed
    THEN Crashed(VelocityTooHigh(v))
    ELSE IF line.a[2] # line.b[2]
    THEN Crashed(SurfaceNotFlat(line))
    ELSE IF NormalizedAttitude(a) > AngleTolerance
            /\ NormalizedAttitude(a) < FullTurn - AngleTolerance
    THEN Crashed(AngleTooSteep(NormalizedAttitude(a)))
    ELSE Landed

-----------------------------------------------------------------------------
(* LunarModule operations *)

\* 20.0 + rand::random::<f32>() * 20.0, the random number being r / RandDenominator
SpawnVelocity(r) == <<SpawnSpeedMin + (r * SpawnSpeedSpan) \div RandDenominator, 0>>

\* reset that leaves desired_attitude as it was
reset_keeps_desired(r) ==
    /\ boot = "ok"
    /\ velocity' = SpawnVelocity(r)
    /\ position' = SpawnPosition
    /\ attitude' = SpawnAttitude
    /\ state' = Flying
    /\ thruster_on' = TRUE
    /\ last_op' = "reset"
    /\ ticks' = 0
    /\ burns' = 0
    /\ turns' = 0
    /\ UNCHANGED <<frames, started, calls, points, boot, map, zoomed, desired_attitude>>

reset(r) ==
    /\ boot = "ok"
    /\ velocity' = SpawnVelocity(r)
    /\ position' = SpawnPosition
    /\ attitude' = SpawnAttitude
    /\ desired_attitude' = SpawnAttitude
    /\ state' = Flying
    /\ thruster_on' = TRUE
    /\ last_op' = "reset"
    /\ ticks' = 0
    /\ burns' = 0
    /\ turns' = 0
    /\ UNCHANGED <<frames, started, calls, points, boot, map, zoomed>>

update_attitude ==
    /\ boot = "ok"
    /\ attitude' = IF IsFlying THEN desired_attitude ELSE attitude
    /\ last_op' = "update_attitude"
    /\ UNCHANGED <<frames, started, calls, points, boot, map, state, position, velocity,
                   desired_attitude, thruster_on, zoomed, ticks, burns, turns>>

\* Transform::rotate(attitude) * (Vector::new(0, -15) / 60.0), in velocity units
ThrustImpulse(a) ==
    LET r == Rotate(a, <<0, -ThrustAccel>>)
    IN <<RoundDiv(r[1], TrigScale), RoundDiv(r[2], TrigScale)>>

\* apply_thrust without the test of the state
apply_thrust_unguarded ==
    /\ boot = "ok"
    /\ burns < MaxBurns /\ Ops < MaxOps
    /\ velocity' = VAdd(velocity, ThrustImpulse(attitude))
    /\ thruster_on' = TRUE
    /\ burns' = burns + 1
    /\ last_op' = "apply_thrust"
    /\ UNCHANGED <<frames, started, calls, points, boot, map, state, position, attitude,
                   desired_attitude, zoomed, ticks, turns>>

\* apply_thrust with "self.thruster_on = true" outside the test of the state
apply_thrust_flag_unguarded ==
    /\ boot = "ok"
    /\ IsFlying => (burns < MaxBurns /\ Ops < MaxOps)
    /\ IF IsFlying
       THEN /\ velocity' = VAdd(velocity, ThrustImpulse(attitude))
            /\ burns' = burns + 1
       ELSE UNCHANGED <<velocity, burns>>
    /\ thruster_on' = TRUE
    /\ last_op' = "apply_thrust"
    /\ UNCHANGED <<frames, started, calls, points, boot, map, state, position, attitude,
                   desired_attitude, zoomed, ticks, turns>>

apply_thrust ==
    /\ boot = "ok"
    /\ IsFlying => (burns < MaxBurns /\ Ops < MaxOps)
    /\ IF IsFlying
       THEN /\ velocity' = VAdd(velocity, ThrustImpulse(attitude))
            /\ thruster_on' = TRUE
            /\ burns' = burns + 1
       ELSE UNCHANGED <<velocity, thruster_on, burns>>
    /\ last_op' = "apply_thrust"
    /\ UNCHANGED <<frames, started, calls, points, boot, map, state, position, attitude,
                   desired_attitude, zoomed, ticks, turns>>

disable_thrust ==
    /\ boot = "ok"
    /\ thruster_on' = FALSE
    /\ last_op' = "disable_thrust"
    /\ UNCHANGED <<frames, started, calls, points, boot, map, state, position, velocity, attitude,
                   desired_attitude, zoomed, ticks, burns, turns>>

\* tick_position advancing the position by the velocity before gravity
tick_position_old_velocity ==
    /\ boot = "ok"
    /\ ticks < MaxTicks /\ Ops < MaxOps
    /\ velocity' = VAdd(velocity, <<0, Gravity>>)
    /\ position' = VAdd(position, velocity)
    /\ ticks' = ticks + 1
    /\ last_op' = "tick_position"
    /\ UNCHANGED <<frames, started, calls, points, boot, map, state, attitude, desired_attitude,
                   thruster_on, zoomed, burns, turns>>

tick_position ==
    /\ boot = "ok"
    /\ ticks < MaxTicks /\ Ops < MaxOps
    /\ velocity' = VAdd(velocity, <<0, Gravity>>)
    /\ position' = VAdd(position, velocity')
    /\ ticks' = ticks + 1
    /\ last_op' = "tick_position"
    /\ UNCHANGED <<frames, started, calls, points, boot, map, state, attitude, desired_attitude,
                   thruster_on, zoomed, burns, turns>>

\* check_collision that leaves a Landed or Crashed craft as it is
check_collision_keeps_terminal ==
    /\ boot = "ok"
    /\ LET hit == FirstContact(map, position, attitude, zoomed)
       IN IF IsTerminal
          THEN UNCHANGED <<state, thruster_on>>
          ELSE IF hit # 0
          THEN /\ thruster_on' = FALSE
               /\ state' = Classify(map[hit], velocity, attitude)
          ELSE /\ state' = Flying
               /\ UNCHANGED thruster_on
    /\ last_op' = "check_collision"
    /\ UNCHANGED <<frames, started, calls, points, boot, map, position, velocity, attitude,
                   desired_attitude, zoomed, ticks, burns, turns>>

\* check_collision as in the draft: thrust is disabled on a crash only
check_collision_thrust_on_landing ==
    /\ boot = "ok"
    /\ LET hit == FirstContact(map, position, attitude, zoomed)
       IN IF hit # 0
          THEN /\ state' = Classify(map[hit], velocity, attitude)
               /\ thruster_on' = (thruster_on /\ state' = Landed)
          ELSE /\ state' = Flying
               /\ UNCHANGED thruster_on
    /\ last_op' = "check_collision"
    /\ UNCHANGED <<frames, started, calls, points, boot, map, position, velocity, attitude,
                   desired_attitude, zoomed, ticks, burns, turns>>

check_collision ==
    /\ boot = "ok"
    /\ LET hit == FirstContact(map, position, attitude, zoomed)
       IN IF hit # 0
          THEN /\ thruster_on' = FALSE
               /\ state' = Classify(map[hit], velocity, attitude)
          ELSE /\ state' = Flying
               /\ UNCHANGED thruster_on
    /\ last_op' = "check_collision"
    /\ UNCHANGED <<frames, started, calls, points, boot, map, position, velocity, attitude,
                   desired_attitude, zoomed, ticks, burns, turns>>

\* the host's write to the public field: desired_attitude -= 2.5 or += 2.5
turn(delta) ==
    /\ boot = "ok"
    /\ turns < MaxTurns /\ Ops < MaxOps
    /\ desired_attitude' = desired_attitude + delta
    /\ turns' = turns + 1
    /\ last_op' = "turn"
    /\ UNCHANGED <<frames, started, calls, points, boot, map, state, position, velocity, attitude,
                   thruster_on, zoomed, ticks, burns>>

-----------------------------------------------------------------------------
(* Start-up: the terrain is built from the waypoints, the craft by new(),   *)
(* and the host places the craft through its public fields.                *)

\* waypoint lists, in geometry units
FlatPad == <<<<3800, 3035>>, <<4200, 3035>>>>
SlopeThenPad == <<<<3800, 2900>>, <<3960, 3035>>, <<4200, 3035>>>>
PadThenSlope == <<<<4200, 3035>>, <<3960, 3035>>, <<3800, 2900>>>>
FarGround == <<<<3800, 3500>>, <<4200, 3500>>>>
SinglePoint == <<<<3800, 3035>>>>
NoPoints == <<>>
\* a short wall inside the body of a craft at the spawn point
BodyWall == <<<<4045, 2985>>, <<4045, 3015>>>>

WaypointLists ==
    {FlatPad, SlopeThenPad, PadThenSlope, FarGround, SinglePoint, NoPoints, BodyWall}

Rands == 0..RandDenominator

GrazingPosition == <<4000 * PosPerGeom, 2996 * PosPerGeom>>

StartAttitudes ==
    {SpawnAttitude, 0, 50, 100, 125, 450, 3475, 3500, 3550, 3650, 4050,
     -50, -100, -125, -450, -3550, -3650, -4050}

\* where the craft is when the run starts: as new() leaves it, or as the host
\* has placed it through the public fields
Spawned == {[p |-> SpawnPosition, v |-> SpawnVelocity(r), a |-> SpawnAttitude] : r \in Rands}

SlowAtEveryAttitude == {[p |-> SpawnPosition, v |-> <<0, 300>>, a |-> a] : a \in StartAttitudes}

AroundSpeedLimit ==
    {[p |-> SpawnPosition, v |-> v, a |-> a] :
        v \in {<<1200, 0>>, <<1201, 0>>, <<900, -1200>>}, a \in {0, 450}}

Grazing == {[p |-> GrazingPosition, v |-> <<0, -600>>, a |-> 0]}

Scenarios ==
    {[pts |-> pts, c |-> c, z |-> FALSE] :
        pts \in {FlatPad, SlopeThenPad, PadThenSlope},
        c \in Spawned \cup SlowAtEveryAttitude \cup AroundSpeedLimit \cup Grazing}
    \cup {[pts |-> pts, c |-> c, z |-> TRUE] :
        pts \in {FlatPad, SlopeThenPad}, c \in AroundSpeedLimit}
    \cup {[pts |-> BodyWall, c |-> c, z |-> FALSE] : c \in AroundSpeedLimit}
    \cup {[pts |-> pts, c |-> c, z |-> FALSE] :
        pts \in {FarGround, SinglePoint, NoPoints}, c \in Spawned}

\* MapMessage::extract_map and LunarModule::new(), then the placement
Init ==
    \E s \in Scenarios :
        /\ points = s.pts
        /\ boot = extract_map(s.pts).outcome
        /\ map = extract_map(s.pts).lines
        /\ state = Flying
        /\ position = s.c.p
        /\ velocity = s.c.v
        /\ desired_attitude = s.c.a
        /\ attitude = s.c.a
        /\ thruster_on = TRUE
        /\ zoomed = s.z
        /\ last_op = "new"
        /\ ticks = 0
        /\ burns = 0
        /\ turns = 0
        /\ started = FALSE
        /\ calls = <<>>
        /\ frames = 0

Next ==
    \/ \E r \in Rands : reset(r)
    \/ update_attitude
    \/ apply_thrust
    \/ disable_thrust
    \/ tick_position
    \/ check_collision
    \/ \E delta \in {-AttitudeStep, AttitudeStep} : turn(delta)

Spec == Init /\ [][Next]_vars

-----------------------------------------------------------------------------
(* The host loop, game.rs Game::update.  The craft operations are applied   *)
(* in sequence to a record of the craft's fields.  The window state         *)
(* (fullscreen, view_rectangle) is not read by the simulation and is left   *)
(* out.                                                                     *)

Self ==
    [state |-> state, position |-> position, velocity |-> velocity,
     attitude |-> attitude, desired_attitude |-> desired_attitude,
     thruster_on |-> thruster_on]

Reset(c, r) ==
    [state |-> Flying, position |-> SpawnPosition, velocity |-> SpawnVelocity(r),
     attitude |-> SpawnAttitude, desired_attitude |-> SpawnAttitude,
     thruster_on |-> TRUE]

UpdateAttitude(c) ==
    IF c.state = Flying THEN [c EXCEPT !.attitude = c.desired_attitude] ELSE c

ApplyThrust(c) ==
    IF c.state = Flying
    THEN [c EXCEPT !.velocity = VAdd(c.velocity, ThrustImpulse(c.attitude)),
                   !.thruster_on = TRUE]
    ELSE c

DisableThrust(c) == [c EXCEPT !.thruster_on = FALSE]

TickPosition(c) ==
    LET v == VAdd(c.velocity, <<0, Gravity>>)
    IN [c EXCEPT !.velocity = v, !.position = VAdd(c.position, v)]

\* check_collision without the call of disable_thrust on contact
CheckCollision_KeepsThrust(c, lines, z) ==
    LET hit == FirstContact(lines, c.position, c.attitude, z)
    IN IF hit # 0
       THEN [c EXCEPT !.state = Classify(lines[hit], c.velocity, c.attitude)]
       ELSE [c EXCEPT !.state = Flying]

CheckCollision(c, lines, z) ==
    LET hit == FirstContact(lines, c.position, c.attitude, z)
    IN IF hit # 0
       THEN [c EXCEPT !.thruster_on = FALSE,
                      !.state = Classify(lines[hit], c.velocity, c.attitude)]
       ELSE [c EXCEPT !.state = Flying]

\* the keys that are down in a frame; Left/A, Right/D and Up/W are one key each
Keys == [space : BOOLEAN, escape : BOOLEAN, left : BOOLEAN, right : BOOLEAN,
         up : BOOLEAN, r : BOOLEAN]

NoKeys == [space |-> FALSE, escape |-> FALSE, left |-> FALSE, right |-> FALSE,
           up |-> FALSE, r |-> FALSE]

SpaceOnly == [NoKeys EXCEPT !.space = TRUE]

\* detailed_view_checker: Rectangle::new(position - (300, 100), (400, 200))
DetailedViewChecker(p) ==
    LET top_left == VSub(GeomPos(p), <<300 * UnitScale, 100 * UnitScale>>)
    IN [lo |-> top_left, hi |-> VAdd(top_left, <<400 * UnitScale, 200 * UnitScale>>)]

DetailedViewNeeded(p, lines) ==
    \E i \in 1..Len(lines) : RectIntersects(DetailedViewChecker(p), lines[i])

\* the Left and Right keys of update
TurnKeys(c, k) ==
    [c EXCEPT !.desired_attitude = c.desired_attitude
                                   - (IF k.left THEN AttitudeStep ELSE 0)
                                   + (IF k.right THEN AttitudeStep ELSE 0)]

\* the craft operations update calls, in the order of the calls
Called(k, integrate) ==
    (IF k.escape THEN <<"reset">> ELSE <<>>)
    \o <<"update_attitude">>
    \o (IF k.up \/ k.space THEN <<"apply_thrust">> ELSE <<"disable_thrust">>)
    \o (IF k.r THEN <<"reset">> ELSE <<>>)
    \o <<"check_collision">>
    \o (IF integrate THEN <<"tick_position">> ELSE <<>>)

\* what update leaves in the craft and in the game
Publish(c, ops, s) ==
    /\ state' = c.state
    /\ position' = c.position
    /\ velocity' = c.velocity
    /\ attitude' = c.attitude
    /\ desired_attitude' = c.desired_attitude
    /\ thruster_on' = c.thruster_on
    /\ zoomed' = DetailedViewNeeded(c.position, map)
    /\ calls' = ops
    /\ started' = s

\* Game::update with the keys k down; r1 and r2 are the random numbers of the
\* two calls of reset.  Each \E binds the craft as one step leaves it.
Update(k, r1, r2) ==
    /\ boot = "ok"
    /\ IF ~started
       THEN \E c \in {Self} : Publish(c, <<>>, k.space)
       ELSE \E c1 \in {IF k.escape THEN Reset(Self, r1) ELSE Self} :
            \E c3 \in {TurnKeys(c1, k)} :
            \E c4 \in {UpdateAttitude(c3)} :
            \E c5 \in {IF k.up \/ k.space THEN ApplyThrust(c4) ELSE DisableThrust(c4)} :
            \E c6 \in {IF k.r THEN Reset(c5, r2) ELSE c5} :
            \E c7 \in {CheckCollision(c6, map, zoomed)} :
            \E c8 \in {IF c7.state = Flying THEN TickPosition(c7) ELSE c7} :
                Publish(c8, Called(k, c7.state = Flying), ~k.escape)
    /\ last_op' = "update"
    /\ UNCHANGED <<points, boot, map>>

-----------------------------------------------------------------------------
(* The drop: the craft is placed at rest above a single flat pad, the       *)
(* player presses Space to start and then touches no key.                  *)

DropPad == <<<<0, 100 * UnitScale>>, <<1000 * UnitScale, 100 * UnitScale>>>>

DropPositions ==
    {<<x * VelScale * VelScale, y * VelScale * VelScale>> : x \in {500}, y \in {94, 95}}

DropAttitudes == {0, SpawnAttitude}

DropInit ==
    \E p \in DropPositions, a \in DropAttitudes :
        /\ points = DropPad
        /\ boot = extract_map(DropPad).outcome
        /\ map = extract_map(DropPad).lines
        /\ state = Flying
        /\ position = p
        /\ velocity = <<0, 0>>
        /\ desired_attitude = a
        /\ attitude = a
        /\ thruster_on = TRUE
        /\ zoomed = FALSE
        /\ last_op = "new"
        /\ ticks = 0
        /\ burns = 0
        /\ turns = 0
        /\ started = FALSE
        /\ calls = <<>>
        /\ frames = 0

DropNext ==
    /\ Update(IF started THEN NoKeys ELSE SpaceOnly, 0, 0)
    /\ UNCHANGED <<ticks, burns, turns, frames>>

\* update is called once per frame for as long as the application runs
SpecDrop == DropInit /\ [][DropNext]_vars /\ WF_vars(DropNext)

-----------------------------------------------------------------------------
(* The game: update is called frame after frame with any keys down.  The    *)
(* runs start from Game::new() and from states in the middle of a flight.   *)

\* a pad at y = 305: below the legs of a zoomed craft at the spawn point,
\* reached by the legs of an unzoomed one
LowPad == <<<<3800, 3050>>, <<4200, 3050>>>>

\* over the pad, the leg tips of the zoomed craft on it
OnPadPosition == <<400 * PosPerGeom * UnitScale, 3026 * PosPerGeom>>

\* away from every line of the terrain
FarPosition == <<800 * PosPerGeom * UnitScale, 300 * PosPerGeom * UnitScale>>

OnPad ==
    {[p |-> OnPadPosition, v |-> <<0, 300>>, a |-> a] : a \in {0, 100, 125, -100, 3500}}
    \cup {[p |-> OnPadPosition, v |-> v, a |-> 0] : v \in {<<1200, 0>>, <<1201, 0>>}}

Far == {[p |-> FarPosition, v |-> <<0, 0>>, a |-> SpawnAttitude]}

\* what a frame with no key down calls on a flying craft
FlyingFrame == <<"update_attitude", "disable_thrust", "check_collision", "tick_position">>

GameInit ==
    /\ points = LowPad
    /\ boot = extract_map(LowPad).outcome
    /\ map = extract_map(LowPad).lines
    /\ state = Flying
    /\ last_op = "new"
    /\ ticks = 0
    /\ burns = 0
    /\ turns = 0
    /\ frames = 0
    /\ \/ \E c \in Spawned :
            \* Game::new()
            /\ position = c.p
            /\ velocity = c.v
            /\ attitude = c.a
            /\ desired_attitude = c.a
            /\ thruster_on = TRUE
            /\ zoomed = FALSE
            /\ started = FALSE
            /\ calls = <<>>
       \/ \E c \in OnPad \cup Far :
            \* in flight, as the frame before left the craft and the game
            /\ position = c.p
            /\ velocity = c.v
            /\ attitude = c.a
            /\ desired_attitude = c.a
            /\ thruster_on = FALSE
            /\ zoomed = DetailedViewNeeded(c.p, extract_map(LowPad).lines)
            /\ started = TRUE
            /\ calls = FlyingFrame

\* one frame; reset draws a random number only when it is called
GameNext ==
    /\ frames < MaxFrames
    /\ \E k \in Keys :
       \E r1 \in (IF k.escape THEN Rands ELSE {0}), r2 \in (IF k.r THEN Rands ELSE {0}) :
            Update(k, r1, r2)
    /\ frames' = frames + 1
    /\ UNCHANGED <<ticks, burns, turns>>

SpecGame == GameInit /\ [][GameNext]_vars

-----------------------------------------------------------------------------
(* Properties *)

Contact == FirstContact(map, position, attitude, zoomed)
ContactLine == map[Contact]
IsFlat(line) == line.a[2] = line.b[2]
TooFast == Len2(velocity) > MaxLandingSpeed * MaxLandingSpeed
AfterContact == last_op = "check_collision" /\ Contact # 0

\* the attitude as an angle in [0, 360)
Modulo360(a) == a % FullTurn

\* C1: without reset() the craft never leaves Landed or Crashed, and reset()
\* always yields Flying
C1_TerminalUntilReset ==
    [][/\ (IsTerminal /\ last_op' # "reset") => IsTerminal'
       /\ last_op' = "reset" => IsFlying']_vars

\* C2: on contact at more than 20 units per second the craft is
\* Crashed(VelocityTooHigh(velocity)), whatever the attitude and the surface
C2_VelocityDominates ==
    (AfterContact /\ TooFast) => state = Crashed(VelocityTooHigh(velocity))

C2_Witness ==
    /\ AfterContact
    /\ TooFast
    /\ IsFlat(ContactLine)
    /\ attitude = 0
    /\ state = Crashed(VelocityTooHigh(velocity))

\* C3: on contact at no more than 20 units per second with a first line that
\* is not flat the craft is Crashed(SurfaceNotFlat(line)), whatever the attitude
C3_FlatnessDominatesAngle ==
    (AfterContact /\ ~TooFast /\ ~IsFlat(ContactLine))
        => state = Crashed(SurfaceNotFlat(ContactLine))

C3_Witness ==
    /\ AfterContact
    /\ ~TooFast
    /\ ~IsFlat(ContactLine)
    /\ Modulo360(attitude) > AngleTolerance
    /\ Modulo360(attitude) < FullTurn - AngleTolerance
    /\ state = Crashed(SurfaceNotFlat(ContactLine))

\* C4: on contact with a flat line at no more than 20 units per second and an
\* attitude n, modulo 360, strictly between 10 and 350 degrees the craft is
\* Crashed(AngleTooSteep(n))
C4_AngleTooSteepPayload ==
    (/\ AfterContact
     /\ ~TooFast
     /\ IsFlat(ContactLine)
     /\ Modulo360(attitude) > AngleTolerance
     /\ Modulo360(attitude) < FullTurn - AngleTolerance)
        => state = Crashed(AngleTooSteep(Modulo360(attitude)))

\* C5: on contact with a flat line at no more than 20 units per second and an
\* attitude within 10 degrees of upright modulo 360, both ends included, the
\* craft is Landed
C5_UprightLands ==
    (/\ AfterContact
     /\ ~TooFast
     /\ IsFlat(ContactLine)
     /\ \/ Modulo360(attitude) <= AngleTolerance
        \/ Modulo360(attitude) >= FullTurn - AngleTolerance)
        => state = Landed

C5_Witness ==
    /\ AfterContact
    /\ Len2(velocity) = MaxLandingSpeed * MaxLandingSpeed
    /\ IsFlat(ContactLine)
    /\ state = Landed

\* C6: the normalized attitude lies in [0, 360) and is the same for every
\* attitude that differs by a whole number of turns
C6_NormalizeInvariant ==
    boot = "ok" => \A k \in -MaxWraps..MaxWraps :
        /\ NormalizedAttitude(attitude + k * FullTurn) >= 0
        /\ NormalizedAttitude(attitude + k * FullTurn) < FullTurn
        /\ NormalizedAttitude(attitude + k * FullTurn) = NormalizedAttitude(attitude)

\* C7: on a Landed or Crashed craft apply_thrust() changes neither the
\* velocity nor the thruster flag and update_attitude() does not change the
\* attitude
C7_NoOpWhenNotFlying ==
    [][/\ (IsTerminal /\ last_op' = "apply_thrust")
            => (velocity' = velocity /\ thruster_on' = thruster_on)
       /\ (IsTerminal /\ last_op' = "update_attitude")
            => attitude' = attitude]_vars

C7_Witness ==
    /\ IsTerminal
    /\ last_op = "apply_thrust"
    /\ ~thruster_on
    /\ desired_attitude # attitude

\* C8: on a Landed or Crashed craft no operation but reset(), tick_position()
\* included, changes velocity, position or attitude
C8_FrozenWhenNotFlying ==
    [][(IsTerminal /\ last_op' # "reset")
            => UNCHANGED <<velocity, position, attitude>>]_vars

\* C9: after reset() the craft is Flying at (400, 300), moves in +x only at a
\* speed in [20, 40], attitude and desired attitude are 90 and the thruster is on
C9_ResetPostcondition ==
    last_op = "reset" =>
        /\ state = Flying
        /\ position = <<400 * 3600, 300 * 3600>>
        /\ velocity[2] = 0
        /\ velocity[1] >= 20 * 60
        /\ velocity[1] <= 40 * 60
        /\ attitude = 900
        /\ desired_attitude = 900
        /\ thruster_on

C9_Witness ==
    /\ last_op = "reset"
    /\ velocity[1] > 20 * 60
    /\ velocity[1] < 40 * 60
    /\ thruster_on
    /\ IsFlying

\* C10: a waypoint list of fewer than 2 points yields no terrain: construction
\* fails, and no terrain ever has zero lines
C10_ShortListRejected ==
    /\ Len(points) < 2 => boot # "ok"
    /\ boot = "ok" => Len(map) >= 1

\* C12: the thruster flag goes from off to on only in a step that leaves the
\* craft Flying, and apply_thrust() never turns it on for a Landed or Crashed craft
C12_ThrusterOnOnlyWhenFlying ==
    [][/\ (~thruster_on /\ thruster_on') => IsFlying'
       /\ (IsTerminal /\ last_op' = "apply_thrust" /\ ~thruster_on) => ~thruster_on']_vars

C12_Witness ==
    /\ last_op = "apply_thrust"
    /\ burns = 1
    /\ thruster_on
    /\ IsFlying

\* C15: after check_collision with no line in contact the craft is Flying,
\* also when it was Landed or Crashed before
C15_NoContactMeansFlying ==
    (last_op = "check_collision" /\ Contact = 0) => state = Flying

\* the craft has landed, has been moved by tick_position and is Flying again
C15_Witness ==
    /\ last_op = "check_collision"
    /\ Contact = 0
    /\ ticks = 1
    /\ points = FlatPad
    /\ velocity = <<0, -595>>
    /\ ~thruster_on
    /\ state = Flying

\* the lines in contact with the craft
CollidingLines ==
    {i \in 1..Len(map) : Colliding(map[i], position, attitude, zoomed)}

LowestCollidingLine == CHOOSE i \in CollidingLines : \A j \in CollidingLines : i <= j

\* C16: when several lines are in contact the outcome is the one of the line
\* of lowest index alone
C16_FirstContactWins ==
    (last_op = "check_collision" /\ CollidingLines # {})
        => state = Classify(map[LowestCollidingLine], velocity, attitude)

C16_Witness ==
    /\ last_op = "check_collision"
    /\ Cardinality(CollidingLines) >= 2
    /\ IsFlat(map[LowestCollidingLine])
    /\ \E j \in CollidingLines : ~IsFlat(map[j])
    /\ state = Landed

\* C17: after check_collision with a line in contact the thruster is off,
\* whatever the outcome, also when apply_thrust() was called before
C17_ContactDisablesThrust ==
    AfterContact => ~thruster_on

C17_Witness ==
    /\ AfterContact
    /\ burns = 1
    /\ state = Landed
    /\ ~thruster_on

\* C18: n >= 2 waypoints give n - 1 lines, line i joining waypoint i to
\* waypoint i + 1, so that each line ends where the next one starts
C18_TerrainContiguous ==
    (boot = "ok" /\ Len(points) >= 2) =>
        /\ Len(map) = Len(points) - 1
        /\ \A i \in 1..Len(map) : map[i].a = points[i] /\ map[i].b = points[i + 1]
        /\ \A i \in 1..(Len(map) - 1) : map[i].b = map[i + 1].a

C18_Witness ==
    /\ boot = "ok"
    /\ Len(points) = 3
    /\ Len(map) = 2
    /\ map[1].b = map[2].a

\* C19: tick_position adds 5/60 to the vertical velocity only and then moves
\* the position by the new velocity over 60, in every state of the craft
C19_IntegrationStep ==
    [][last_op' = "tick_position" =>
        /\ velocity' = <<velocity[1], velocity[2] + 5>>
        /\ position' = <<position[1] + velocity'[1], position[2] + velocity'[2]>>]_vars

C19_Witness ==
    /\ last_op = "tick_position"
    /\ IsTerminal
    /\ velocity[1] # 0
    /\ ~thruster_on

\* a line touches the nose circle or one of the two legs
TouchesNoseOrLeg(line) ==
    \/ CircleIntersects(Top(position, attitude, zoomed), line)
    \/ LineIntersects(LeftLegBase(position, attitude, zoomed), line)
    \/ LineIntersects(RightLegBase(position, attitude, zoomed), line)

TouchesBody(line) == RectIntersects(BodyRect(position, zoomed), line)

\* C20: check_collision registers contact exactly when a line touches the
\* nose circle or a leg; a line that touches the body only leaves the craft Flying
C20_BodyExcluded ==
    last_op = "check_collision" =>
        /\ ~IsFlying <=> \E i \in 1..Len(map) : TouchesNoseOrLeg(map[i])
        /\ (\A i \in 1..Len(map) : ~TouchesNoseOrLeg(map[i])) => IsFlying

C20_Witness ==
    /\ last_op = "check_collision"
    /\ \E i \in 1..Len(map) : TouchesBody(map[i])
    /\ \A i \in 1..Len(map) : ~TouchesNoseOrLeg(map[i])
    /\ IsFlying

\* ---- the host loop ----

\* the place of a craft operation in the order the tick is described in
Rank(op) ==
    CASE op = "update_attitude" -> 1
      [] op = "apply_thrust" -> 2
      [] op = "disable_thrust" -> 2
      [] op = "tick_position" -> 3
      [] op = "check_collision" -> 4
      [] OTHER -> 0

\* C11: within one tick the craft operations run in the order attitude
\* update, thrust command, position integration, collision check, so that the
\* lifecycle state left by the tick is the one of the position integrated in
\* the same tick.
C11_IntegrateThenCheck ==
    /\ \A i, j \in DOMAIN calls :
        (i < j /\ Rank(calls[i]) > 0 /\ Rank(calls[j]) > 0)
            => Rank(calls[i]) <= Rank(calls[j])
    /\ (\E i \in DOMAIN calls : calls[i] = "tick_position")
            => (IsFlying <=> Contact = 0)

\* C13: dropped from rest above the flat pad with attitude 0 and no input, the
\* craft reaches Landed and never enters Crashed.
C13_UprightDropLands ==
    []((points = DropPad /\ desired_attitude = 0)
            => (state.tag # "Crashed" /\ <>(state = Landed)))

C13_Witness ==
    /\ points = DropPad
    /\ started
    /\ last_op = "update"
    /\ desired_attitude = 0
    /\ velocity[1] = 0
    /\ velocity[2] > 0
    /\ ~TooFast
    /\ state = Landed

\* C14: the same drop with attitude and desired attitude 90 reaches
\* Crashed(AngleTooSteep(90)) and never enters Landed.
C14_SidewaysDropCrashes ==
    []((points = DropPad /\ desired_attitude = SpawnAttitude)
            => (state # Landed /\ <>(state = Crashed(AngleTooSteep(SpawnAttitude)))))

C14_Witness ==
    /\ points = DropPad
    /\ started
    /\ last_op = "update"
    /\ desired_attitude = SpawnAttitude
    /\ ~TooFast
    /\ state = Crashed(AngleTooSteep(SpawnAttitude))

\* ---- the game ----

\* the last frame called op on the craft
InCalls(op, ops) == \E i \in DOMAIN ops : ops[i] = op

\* where the craft is when the frame reaches check_collision: reset moves it to
\* the spawn point, no other call before check_collision moves it
PositionAtCheck(ops) == IF InCalls("reset", ops) THEN SpawnPosition ELSE position

\* C21: in every frame the zoomed flag read by check_collision is the
\* detailed-view decision for the position the craft has at that moment, also
\* in frames in which reset() has moved the craft to the spawn point.
C21_ZoomMatchesPosition ==
    [][InCalls("check_collision", calls')
          => (zoomed <=> DetailedViewNeeded(PositionAtCheck(calls'), map))]_vars

\* C22: once Landed or Crashed, the state with its reason and payload, the
\* position, the velocity and the attitude are the same at the end of every
\* later frame, until a frame in which R or Escape is down.
C22_TerminalFrozenInGame ==
    [][(IsTerminal /\ ~InCalls("reset", calls'))
          => /\ state' = state
             /\ position' = position
             /\ velocity' = velocity
             /\ attitude' = attitude]_vars

Upright(a) == Modulo360(a) <= AngleTolerance \/ Modulo360(a) >= FullTurn - AngleTolerance

\* C23: at the end of every frame, a Landed craft has a speed of at most 20
\* and an attitude within 10 degrees of upright modulo 360, and the payload a
\* of Crashed(AngleTooSteep(a)) satisfies 10 < a < 350.
C23_TerminalStateJustified ==
    /\ state = Landed => (~TooFast /\ Upright(attitude))
    /\ (state.tag = "Crashed" /\ state.reason.kind = "AngleTooSteep")
          => (state.reason.angle > AngleTolerance
              /\ state.reason.angle < FullTurn - AngleTolerance)

C23_Witness ==
    /\ state = Landed
    /\ frames >= 2
    /\ attitude = -AngleTolerance
    /\ desired_attitude # attitude

\* C24: at the end of every frame, thruster_on implies Flying, whatever keys
\* were down.
C24_FlameOnlyWhenFlying == thruster_on => IsFlying

C24_Witness ==
    /\ IsTerminal
    /\ ~thruster_on
    /\ InCalls("apply_thrust", calls)
    /\ frames >= 2

\* C25: at the end of every frame, a Flying craft has attitude equal to
\* desired_attitude; a delta issued while Landed or Crashed never reaches
\* attitude.
C25_FlyingTracksDesired == IsFlying => attitude = desired_attitude

====
